---------------------------- MODULE Spec2Model ----------------------------
(***************************************************************************)
(* Model of tools/generate_test262_report.py: the group-list parser        *)
(* (GROUP_LINE, parse_groups), the per-group runner and TRX reader         *)
(* (run_group) and the report loop (main).                                 *)
(*                                                                         *)
(* Text is modelled as sequences of characters.  A character is a one-     *)
(* character string, except CHK, which stands for the U+2705 check mark.   *)
(***************************************************************************)
EXTENDS Integers, Sequences, FiniteSets, TLC

\* ------------------------------------------------------------------ bounds
\* Longest raw line of the documents of SpecParse.
MaxLen == 6
\* Most lines of a document of Spec.
MaxDoc == 2
\* Largest counter value the external runner writes into a TRX attribute.
MaxCount == 1

\* -------------------------------------------------------------- characters
CHK == "CHK"
SP == " "

Digits == <<"0", "1", "2", "3", "4", "5", "6", "7", "8", "9">>

\* \d of GROUP_LINE
IsDigit(c) == \E d \in 1..10 : Digits[d] = c

\* \s of GROUP_LINE and the characters str.strip() removes
IsSpace(c) == c \in {" ", "\t", "\n", "\r"}

\* [A-Za-z0-9_.-] of GROUP_LINE (the letters the model's texts use)
IsIdentChar(c) == IsDigit(c) \/ c \in {"a", "b", "A", "Z", "_", ".", "-"}

\* line.strip(): leading and trailing whitespace removed
RECURSIVE LStrip(_)
LStrip(s) == IF s # <<>> /\ IsSpace(Head(s)) THEN LStrip(Tail(s)) ELSE s

RECURSIVE RStrip(_)
RStrip(s) ==
    IF s # <<>> /\ IsSpace(s[Len(s)]) THEN RStrip(SubSeq(s, 1, Len(s) - 1)) ELSE s

Strip(s) == RStrip(LStrip(s))

\* ------------------------------------------------------------- GROUP_LINE
\* ^(?:CHK\s*)?(?:\d+/\d+\s+)?([A-Za-z0-9_.-]+)$
\* The matcher works on positions: a position p means "the first p
\* characters are consumed".

AllDigits(s, from, to) == \A i \in from..to : IsDigit(s[i])
AllSpaces(s, from, to) == \A i \in from..to : IsSpace(s[i])
AllIdentChars(s, from, to) == \A i \in from..to : IsIdentChar(s[i])

\* positions reachable after the optional group (?:CHK\s*)?
AfterCheck(s) ==
    {0} \cup
    IF s # <<>> /\ s[1] = CHK
    THEN {p \in 1..Len(s) : AllSpaces(s, 2, p)}
    ELSE {}

\* RatioEnds with the whitespace after the ratio optional (\s* for \s+)
RatioEnds_OptionalSpace(s, p) ==
    {q \in (p + 1)..Len(s) :
        \E i, j \in (p + 1)..Len(s) :
            /\ i < j /\ j <= q
            /\ i > p + 1
            /\ AllDigits(s, p + 1, i - 1)
            /\ s[i] = "/"
            /\ AllDigits(s, i + 1, j)
            /\ AllSpaces(s, j + 1, q)}

\* positions reachable from p after \d+/\d+\s+
RatioEnds(s, p) ==
    {q \in (p + 1)..Len(s) :
        \E i, j \in (p + 1)..Len(s) :
            /\ i < j /\ j < q
            /\ i > p + 1
            /\ AllDigits(s, p + 1, i - 1)
            /\ s[i] = "/"
            /\ AllDigits(s, i + 1, j)
            /\ AllSpaces(s, j + 1, q)}

\* positions reachable from p after the optional group (?:\d+/\d+\s+)?
AfterRatio(s, p) == {p} \cup RatioEnds(s, p)

\* positions from which ([A-Za-z0-9_.-]+)$ matches the rest of the line
MatchStarts(s) ==
    {q \in UNION {AfterRatio(s, p) : p \in AfterCheck(s)} :
        q < Len(s) /\ AllIdentChars(s, q + 1, Len(s))}

NoMatch == "None"

\* GROUP_LINE.match(line): group(1) of the match, or NoMatch
GROUP_LINE(s) ==
    IF MatchStarts(s) = {}
    THEN NoMatch
    ELSE LET q == CHOOSE q \in MatchStarts(s) : \A r \in MatchStarts(s) : r <= q
         IN SubSeq(s, q + 1, Len(s))

\* One iteration of the loop of parse_groups: the groups list after `raw`.
ParseLine(acc, raw) ==
    LET line == Strip(raw)
    IN IF line = <<>> \/ line[1] = "#"
       THEN acc
       ELSE IF GROUP_LINE(line) # NoMatch
            THEN Append(acc, GROUP_LINE(line))
            ELSE acc

RECURSIVE ParseFrom(_, _)
ParseFrom(acc, lines) ==
    IF lines = <<>> THEN acc ELSE ParseFrom(ParseLine(acc, Head(lines)), Tail(lines))

parse_groups(document) == ParseFrom(<<>>, document)


\* ------------------------------------------------------- numbers and text
\* str(n) of the f-strings of main
RECURSIVE NatStr(_)
NatStr(n) ==
    IF n < 10 THEN <<Digits[n + 1]>> ELSE NatStr(n \div 10) \o <<Digits[(n % 10) + 1]>>

ToStr(n) == IF n < 0 THEN <<"-">> \o NatStr(0 - n) ELSE NatStr(n)

DigitVal(c) == CHOOSE d \in 0..9 : Digits[d + 1] = c

RECURSIVE DigitsVal(_, _)
DigitsVal(acc, s) ==
    IF s = <<>> THEN acc ELSE DigitsVal(10 * acc + DigitVal(Head(s)), Tail(s))

\* int(text): surrounding whitespace and one sign allowed, then decimal
\* digits; anything else raises ValueError (ok = FALSE).
IntParse(text) ==
    LET s == Strip(text)
        signed == s # <<>> /\ s[1] \in {"-", "+"}
        body == IF signed THEN Tail(s) ELSE s
    IN IF body = <<>> \/ ~AllDigits(body, 1, Len(body))
       THEN [ok |-> FALSE, val |-> 0]
       ELSE [ok |-> TRUE,
             val |-> IF signed /\ s[1] = "-"
                     THEN 0 - DigitsVal(0, body)
                     ELSE DigitsVal(0, body)]

\* --------------------------------------------------------- the TRX file
\* An attribute the Counters node does not carry.
Missing == <<"MISSING">>

\* The state of <results-dir>/<group>.trx.
\*   absent      os.path.exists is false
\*   malformed   ET.parse raises ParseError
\*   nocounters  well-formed, root.find(...) returns None
\*   counters    the Counters node, with the text of its three attributes
File(kind, p, f, n) == [kind |-> kind, passed |-> p, failed |-> f, notExecuted |-> n]

Absent == File("absent", Missing, Missing, Missing)
Malformed == File("malformed", Missing, Missing, Missing)
NoCounters == File("nocounters", Missing, Missing, Missing)

\* summary.attrib.get(name, "0")
AttribGet(attr) == IF attr = Missing THEN <<"0">> ELSE attr

\* ReadCounts without the `except ET.ParseError`: a malformed file raises
ReadCounts_ParseErrorUncaught(file) ==
    LET p == IntParse(AttribGet(file.passed))
        f == IntParse(AttribGet(file.failed))
        n == IntParse(AttribGet(file.notExecuted))
    IN IF file.kind = "malformed"
       THEN [exc |-> "ParseError", passed |-> 0, failed |-> 0, skipped |-> 0]
       ELSE IF file.kind # "counters"
            THEN [exc |-> "none", passed |-> 0, failed |-> 0, skipped |-> 0]
            ELSE IF ~p.ok \/ ~f.ok \/ ~n.ok
                 THEN [exc |-> "ValueError", passed |-> 0, failed |-> 0, skipped |-> 0]
                 ELSE [exc |-> "none", passed |-> p.val, failed |-> f.val,
                       skipped |-> n.val]

\* Lines 66-80 of run_group: the counts read from the file, or the exception
\* that leaves the function (int() raising ValueError is not caught).
ReadCounts(file) ==
    LET zero == [exc |-> "none", passed |-> 0, failed |-> 0, skipped |-> 0]
        p == IntParse(AttribGet(file.passed))
        f == IntParse(AttribGet(file.failed))
        n == IntParse(AttribGet(file.notExecuted))
    IN IF file.kind # "counters"
       THEN zero
       ELSE IF ~p.ok \/ ~f.ok \/ ~n.ok
            THEN [exc |-> "ValueError", passed |-> 0, failed |-> 0, skipped |-> 0]
            ELSE [exc |-> "none", passed |-> p.val, failed |-> f.val, skipped |-> n.val]

\* Line 79
Total(passed, failed, skipped) == passed + failed + skipped

\* --------------------------------------------------------- summary lines
PassLine(name) == <<CHK, SP>> \o name

RatioLine(passed, total, name) == ToStr(passed) \o <<"/">> \o ToStr(total) \o <<SP>> \o name

\* FullyPassed without the `passed > 0` guard
FullyPassed_NoPositiveGuard(passed, failed, total) == failed = 0 /\ passed = total

\* Line 99
FullyPassed(passed, failed, total) == failed = 0 /\ passed > 0 /\ passed = total

\* Lines 99-102
Summary(name, passed, failed, total) ==
    IF FullyPassed(passed, failed, total)
    THEN PassLine(name)
    ELSE RatioLine(passed, total, name)

\* ProgressLine with a 0-based index (enumerate(groups) for enumerate(groups, 1))
ProgressLine_ZeroBased(i, n, group) ==
    <<"[">> \o ToStr(i - 1) \o <<"/">> \o ToStr(n) \o <<"] Running ">> \o group \o <<"...">>

\* Line 97
ProgressLine(i, n, group) ==
    <<"[">> \o ToStr(i) \o <<"/">> \o ToStr(n) \o <<"] Running ">> \o group \o <<"...">>

\* Line 91
NoGroupsLine == <<"No groups found to run.">>

\* ------------------------------------------------------------ the inputs
\* Lines of the tracking document: blank, comment, unrecognised, and the
\* recognised shapes over two group names.
DocLines ==
    { <<>>,
      <<"#", SP, "a">>,
      <<"a", SP, "b">>,
      <<"a">>,
      <<CHK, SP, "1", "/", "2", SP, "b", ".", "a">> }

Docs == UNION {[1..n -> DocLines] : n \in 0..MaxDoc}

\* Every raw line of at most MaxLen characters over this alphabet.
Alphabet == {CHK, SP, "1", "/", "a", "#"}

Lines == UNION {[1..n -> Alphabet] : n \in 0..MaxLen}

\* The group names the documents of Spec can yield.
GroupNames == {<<"a">>, <<"b", ".", "a">>}

\* Integer texts the external runner writes into an attribute of the
\* Counters node, and the attribute left out.
AttrTexts == {Missing} \cup {ToStr(n) : n \in 0..MaxCount}

\* A text that is no integer.
BadText == <<"x">>

\* Counters nodes with one attribute that is no integer.
BadCounters ==
    { File("counters", BadText, <<"0">>, <<"0">>),
      File("counters", <<"0">>, BadText, <<"0">>),
      File("counters", <<"0">>, <<"0">>, BadText) }

\* What the external runner can leave in <group>.trx when it writes it.
Written ==
    {Malformed, NoCounters} \cup BadCounters \cup
    {File("counters", p, f, n) : p \in AttrTexts, f \in AttrTexts, n \in AttrTexts}

\* A file a previous run left behind: a fully passed group.
Stale == File("counters", <<"1">>, <<"0">>, <<"0">>)

\* Every state a TRX file can be in, and what the read makes of each
\* (ReadCounts, tabulated).
Files == Written \cup {Absent, Stale}

CountsOf == [file \in Files |-> ReadCounts(file)]

\* ------------------------------------------------------------- the state
VARIABLES
    doc,        \* the lines of the tracking document (args.groups)
    fs,         \* results directory: group name -> state of <group>.trx
    dirExists,  \* whether the results directory exists
    pc,         \* position in main / run_group
    groups,     \* main: groups
    idx,        \* main: idx
    outcome,    \* how the runner invocation of this iteration ended
    res,        \* main: name, passed, failed, total
    summaries,  \* main: summaries
    stdout,     \* lines printed to standard output
    stderr,     \* lines printed to standard error
    events,     \* the order of the observable steps: <<kind, idx>>
    exitStatus, \* process exit status, -1 while running
    exc         \* the exception that ended the process, or "none"

vars == <<doc, fs, dirExists, pc, groups, idx, outcome, res, summaries,
          stdout, stderr, events, exitStatus, exc>>

NoOutcome == [exit |-> "none", wrote |-> FALSE]
NoRes == [name |-> <<>>, passed |-> 0, failed |-> 0, total |-> 0]

InitMain ==
    /\ pc = "parse"
    /\ groups = <<>>
    /\ idx = 0
    /\ outcome = NoOutcome
    /\ res = NoRes
    /\ summaries = <<>>
    /\ stdout = <<>>
    /\ stderr = <<>>
    /\ events = <<>>
    /\ exitStatus = -1
    /\ exc = "none"

\* The results directory is missing, or is the directory of an earlier run
\* and holds that run's files.
InitDir ==
    \/ dirExists = FALSE /\ fs = [g \in GroupNames |-> Absent]
    \/ dirExists = TRUE /\ fs = [g \in GroupNames |-> Stale]

Init == doc \in Docs /\ InitDir /\ InitMain

\* Line 89
ParseGroups ==
    /\ pc = "parse"
    /\ groups' = parse_groups(doc)
    /\ pc' = "check"
    /\ UNCHANGED <<doc, fs, dirExists, idx, outcome, res, summaries, stdout,
                   stderr, events, exitStatus, exc>>

\* NoGroups without the `if not groups` check: the empty loop falls through
\* to `return 0`
NoGroups_FallsThrough ==
    /\ pc = "check"
    /\ groups = <<>>
    /\ exitStatus' = 0
    /\ pc' = "Done"
    /\ UNCHANGED <<doc, fs, dirExists, groups, idx, outcome, res, summaries,
                   stdout, stderr, events, exc>>

\* Lines 90-92
NoGroups ==
    /\ pc = "check"
    /\ groups = <<>>
    /\ stderr' = Append(stderr, NoGroupsLine)
    /\ exitStatus' = 1
    /\ pc' = "NoGroups"
    /\ UNCHANGED <<doc, fs, dirExists, groups, idx, outcome, res, summaries,
                   stdout, events, exc>>

\* Lines 94-96: the loop is entered
StartLoop ==
    /\ pc = "check"
    /\ groups # <<>>
    /\ summaries' = <<>>
    /\ idx' = 1
    /\ pc' = "progress"
    /\ UNCHANGED <<doc, fs, dirExists, groups, outcome, res, stdout, stderr,
                   events, exitStatus, exc>>

\* Line 97
Progress ==
    /\ pc = "progress"
    /\ stderr' = Append(stderr, ProgressLine(idx, Len(groups), groups[idx]))
    /\ events' = Append(events, <<"progress", idx>>)
    /\ pc' = "run_group"
    /\ UNCHANGED <<doc, fs, dirExists, groups, idx, outcome, res, summaries,
                   stdout, exitStatus, exc>>

\* run_group up to the read of the file (lines 46-64), then what the read
\* makes of `file`, the state of the group's TRX file after the runner
\* (lines 66-80 and the assignment of line 98).
RunAndRead(exit, wrote, file) ==
    /\ dirExists' = TRUE
    /\ outcome' = [exit |-> exit, wrote |-> wrote]
    /\ fs' = [fs EXCEPT ![groups[idx]] = file]
    /\ events' = events \o <<<<"makedirs", idx>>, <<"run", idx>>, <<"read", idx>>>>
    /\ LET c == CountsOf[file]
       IN IF c.exc = "none"
          THEN /\ res' = [name |-> groups[idx],
                          passed |-> c.passed,
                          failed |-> c.failed,
                          total |-> Total(c.passed, c.failed, c.skipped)]
               /\ pc' = "emit"
               /\ UNCHANGED <<stderr, exitStatus, exc>>
          ELSE /\ exc' = c.exc
               /\ stderr' = Append(stderr, <<"Traceback", c.exc>>)
               /\ exitStatus' = 1
               /\ pc' = "Crashed"
               /\ UNCHANGED res

\* run_group when the runner ran: it exits with status 0, or with a non-zero
\* status (CalledProcessError, caught at line 62); either way it has
\* overwritten the group's TRX file or has written nothing.
RunGroup ==
    /\ pc = "run_group"
    /\ \E exit \in {"zero", "nonzero"} :
          \/ RunAndRead(exit, FALSE, fs[groups[idx]])
          \/ \E file \in Written : RunAndRead(exit, TRUE, file)
    /\ UNCHANGED <<doc, groups, idx, summaries, stdout>>

\* run_group when the runner could not be started: subprocess.run raises
\* FileNotFoundError, which `except subprocess.CalledProcessError` does not
\* catch; the exception leaves run_group and main.
RunGroupNotFound ==
    /\ pc = "run_group"
    /\ dirExists' = TRUE
    /\ outcome' = [exit |-> "notfound", wrote |-> FALSE]
    /\ events' = events \o <<<<"makedirs", idx>>, <<"run", idx>>>>
    /\ exc' = "FileNotFoundError"
    /\ stderr' = Append(stderr, <<"Traceback", "FileNotFoundError">>)
    /\ exitStatus' = 1
    /\ pc' = "Crashed"
    /\ UNCHANGED <<doc, fs, groups, idx, res, summaries, stdout>>

\* Emit with the line put in front of the earlier lines
Emit_Prepend ==
    /\ pc = "emit"
    /\ LET summary == Summary(res.name, res.passed, res.failed, res.total)
       IN /\ summaries' = <<summary>> \o summaries
          /\ stdout' = <<summary>> \o stdout
    /\ events' = Append(events, <<"line", idx>>)
    /\ outcome' = NoOutcome
    /\ IF idx < Len(groups)
       THEN idx' = idx + 1 /\ pc' = "progress" /\ UNCHANGED exitStatus
       ELSE idx' = idx /\ pc' = "Done" /\ exitStatus' = 0
    /\ UNCHANGED <<doc, fs, dirExists, groups, res, stderr, exc>>

\* Lines 99-104, then the next iteration or line 106
Emit ==
    /\ pc = "emit"
    /\ LET summary == Summary(res.name, res.passed, res.failed, res.total)
       IN /\ summaries' = Append(summaries, summary)
          /\ stdout' = Append(stdout, summary)
    /\ events' = Append(events, <<"line", idx>>)
    /\ outcome' = NoOutcome
    /\ IF idx < Len(groups)
       THEN idx' = idx + 1 /\ pc' = "progress" /\ UNCHANGED exitStatus
       ELSE idx' = idx /\ pc' = "Done" /\ exitStatus' = 0
    /\ UNCHANGED <<doc, fs, dirExists, groups, res, stderr, exc>>

Next ==
    \/ ParseGroups
    \/ NoGroups
    \/ StartLoop
    \/ Progress
    \/ RunGroup
    \/ RunGroupNotFound
    \/ Emit

Spec == Init /\ [][Next]_vars

\* The parser alone, on every one-line document over Alphabet.
InitParse ==
    /\ doc \in {<<l>> : l \in Lines}
    /\ dirExists = FALSE
    /\ fs = [g \in GroupNames |-> Absent]
    /\ InitMain

NextParse == ParseGroups

SpecParse == InitParse /\ [][NextParse]_vars

\* =================================================================== claims
\* ------------------------------------------------ the recognised line shapes
\* The shapes are stated by decomposition of the trimmed line, apart from the
\* position matcher of GROUP_LINE.

IsIdent(t) == t # <<>> /\ \A i \in 1..Len(t) : IsIdentChar(t[i])
IsInt(t) == t # <<>> /\ \A i \in 1..Len(t) : IsDigit(t[i])
IsBlank(t) == \A i \in 1..Len(t) : IsSpace(t[i])

\* the check mark and the whitespace after it: at least minSpace characters
IsCheckDecor(t, minSpace) ==
    /\ t # <<>>
    /\ t[1] = CHK
    /\ IsBlank(Tail(t))
    /\ Len(t) - 1 >= minSpace

\* <int>/<int> and the whitespace after it
IsRatioDecor(t) ==
    \E i \in 1..Len(t), j \in 1..Len(t) :
        /\ i < j
        /\ IsInt(SubSeq(t, 1, i - 1))
        /\ t[i] = "/"
        /\ IsInt(SubSeq(t, i + 1, j - 1))
        /\ j <= Len(t)
        /\ IsBlank(SubSeq(t, j, Len(t)))

IsDecor(t, minSpace) ==
    \/ t = <<>>
    \/ IsCheckDecor(t, minSpace)
    \/ IsRatioDecor(t)
    \/ \E m \in 1..Len(t) :
          /\ IsCheckDecor(SubSeq(t, 1, m), minSpace)
          /\ IsRatioDecor(SubSeq(t, m + 1, Len(t)))

\* the cuts of a trimmed line into a decoration and a trailing identifier
ShapeCuts(t, minSpace) ==
    {k \in 0..Len(t) :
        IsDecor(SubSeq(t, 1, k), minSpace) /\ IsIdent(SubSeq(t, k + 1, Len(t)))}

\* the trimmed forms of a raw line: whitespace cut from both ends, none left
Trimmed(raw) ==
    {t \in {SubSeq(raw, a + 1, Len(raw) - b) :
                a \in {a \in 0..Len(raw) : IsBlank(SubSeq(raw, 1, a))},
                b \in {b \in 0..Len(raw) : IsBlank(SubSeq(raw, Len(raw) - b + 1, Len(raw)))}} :
        t # <<>> => ~IsSpace(t[1]) /\ ~IsSpace(t[Len(t)])}

\* what a raw line contributes to the group list: nothing, or its identifier
Contribution(raw, minSpace) ==
    LET t == CHOOSE t \in Trimmed(raw) : TRUE
    IN IF t = <<>> \/ t[1] = "#" \/ ShapeCuts(t, minSpace) = {}
       THEN <<>>
       ELSE LET k == CHOOSE k \in ShapeCuts(t, minSpace) : TRUE
            IN <<SubSeq(t, k + 1, Len(t))>>

RECURSIVE ExpectedGroups(_, _)
ExpectedGroups(document, minSpace) ==
    IF document = <<>>
    THEN <<>>
    ELSE ExpectedGroups(SubSeq(document, 1, Len(document) - 1), minSpace)
         \o Contribution(document[Len(document)], minSpace)

\* the group each line of DocLines names, written out by hand
NamedBy(line) ==
    IF line = <<"a">> THEN <<<<"a">>>>
    ELSE IF line = <<CHK, SP, "1", "/", "2", SP, "b", ".", "a">> THEN <<<<"b", ".", "a">>>>
    ELSE <<>>

\* the groups a document of Spec names, in document order
RECURSIVE NamedIn(_)
NamedIn(document) ==
    IF document = <<>> THEN <<>> ELSE NamedBy(Head(document)) \o NamedIn(Tail(document))

Last(s) == s[Len(s)]

\* the line ends with a space and the group's name
NamesGroup(line, g) ==
    /\ Len(line) > Len(g) + 1
    /\ SubSeq(line, Len(line) - Len(g) + 1, Len(line)) = g
    /\ line[Len(line) - Len(g)] = SP

\* the last line of standard output is the line of the iteration `res`
\* holds, and fs[res.name] is the file that iteration read
Emitted == stdout # <<>> /\ pc \in {"progress", "Done"}

ZeroLine(g) == <<"0", "/", "0", SP>> \o g

\* ----------------------------------------------------------------------- C1
\* C1: when main completes, standard output holds exactly one line per parsed
\* group, the i-th line names the i-th group, the groups are the document's
\* group lines in document order, duplicates included, and every one was run.
C1_ReportOrder ==
    pc = "Done" =>
        /\ Len(stdout) = Len(groups)
        /\ groups = NamedIn(doc)
        /\ \A i \in 1..Len(groups) : NamesGroup(stdout[i], groups[i])
        /\ \A i \in 1..Len(groups) :
              Cardinality({k \in 1..Len(events) : events[k] = <<"run", i>>}) = 1

\* a finished run over a document that names the same group twice
C1_Witness ==
    /\ pc = "Done"
    /\ Len(groups) = 2
    /\ groups[1] = groups[2]
    /\ NamesGroup(stdout[1], groups[1])
    /\ NamesGroup(stdout[2], groups[2])

\* ----------------------------------------------------------------------- C2
\* C2: the line of a group is the fully-passed marker iff failed = 0 and
\* passed > 0 and passed = total, with total = passed + failed + skipped of the
\* counts read; in every other case it is the ratio form passed/total.
C2_ClassificationLaw ==
    Emitted =>
        LET c == CountsOf[fs[res.name]]
            total == c.passed + c.failed + c.skipped
            full == c.failed = 0 /\ c.passed > 0 /\ c.passed = total
        IN /\ c.exc = "none"
           /\ full <=> Last(stdout) = <<CHK, SP>> \o res.name
           /\ ~full =>
                 Last(stdout) = ToStr(c.passed) \o <<"/">> \o ToStr(total) \o <<SP>> \o res.name

\* passed > 0 with skipped > 0: the ratio form 1/2
C2_Witness ==
    /\ Emitted
    /\ fs[res.name] = File("counters", <<"1">>, <<"0">>, <<"1">>)
    /\ Last(stdout) = <<"1", "/", "2", SP>> \o res.name

\* ----------------------------------------------------------------------- C3
\* C3: a document that yields zero groups (empty, or only blank, comment or
\* unrecognised lines) ends the run in NoGroups: status 1, one error line on
\* the diagnostic stream, nothing on standard output, no runner invocation
\* and no results directory created.
OnlyIgnoredLines ==
    \A i \in 1..Len(doc) : doc[i] \in {<<>>, <<"#", SP, "a">>, <<"a", SP, "b">>}

C3_ZeroGroups ==
    (pc \notin {"parse", "check"} /\ (groups = <<>> \/ OnlyIgnoredLines)) =>
        /\ pc = "NoGroups"
        /\ exitStatus = 1
        /\ stderr = <<NoGroupsLine>>
        /\ stdout = <<>>
        /\ events = <<>>
        /\ dirExists = (fs # [g \in GroupNames |-> Absent])

\* the NoGroups state after a comment and an unrecognised line
C3_Witness ==
    /\ pc = "NoGroups"
    /\ doc = <<<<"#", SP, "a">>, <<"a", SP, "b">>>>
    /\ exitStatus = 1
    /\ ~dirExists

\* ----------------------------------------------------------------------- C4
\* C4: whenever at least one group is parsed, the run ends in Done with status
\* 0 and a line for every group, whatever the runner and the result files do.
C4_OnlyZeroGroupsAborts ==
    (groups # <<>> /\ exitStatus # -1) =>
        /\ pc = "Done"
        /\ exitStatus = 0
        /\ Len(stdout) = Len(groups)

\* ----------------------------------------------------------------------- C5
\* C5: no error of the runner invocation leaves the runner step: after every
\* invocation, also one that could not start, the result file is read.
C5_RunnerErrorsSwallowed ==
    \A k \in 1..Len(events) :
        events[k][1] = "run" =>
            /\ k < Len(events)
            /\ events[k + 1] = <<"read", events[k][2]>>

\* ----------------------------------------------------------------------- C6
\* C6: the read of the result file always returns counts and never raises,
\* whatever state the file is in.
C6_ReaderNeverRaises ==
    (events # <<>> /\ Last(events)[1] = "read") =>
        /\ pc = "emit"
        /\ exc = "none"
        /\ res.name = groups[idx]

\* ----------------------------------------------------------------------- C7
\* C7: a result file that is absent, malformed or without the counters node
\* gives passed = failed = total = 0 and the line `0/0 <group>`, for every
\* exit code of the runner.
NoCountsKinds == {"absent", "malformed", "nocounters"}

C7_ZeroCounts ==
    /\ (events # <<>> /\ Last(events)[1] = "read" /\
        fs[groups[idx]].kind \in NoCountsKinds) =>
            /\ pc = "emit"
            /\ outcome.exit \in {"zero", "nonzero"}
            /\ res = [name |-> groups[idx], passed |-> 0, failed |-> 0, total |-> 0]
    /\ (Emitted /\ fs[res.name].kind \in NoCountsKinds) =>
            Last(stdout) = ZeroLine(res.name)

\* the line `0/0 <group>` printed for a malformed file
C7_Witness ==
    /\ Emitted
    /\ fs[res.name].kind = "malformed"
    /\ Last(stdout) = ZeroLine(res.name)

C9_IterationsIndependent ==
    (pc = "emit" /\ ~outcome.wrote) =>
        Summary(res.name, res.passed, res.failed, res.total) = ZeroLine(res.name)

\* ---------------------------------------------------------------------- C10
\* C10: for the group at position i of n the steps are, in this order, the
\* progress notice `[i/n] Running <group>...`, one runner invocation, the read
\* of the group's file, the group's line; all of them precede the progress
\* notice of group i + 1.
StepKinds == <<"progress", "makedirs", "run", "read", "line">>

C10_EventOrder ==
    /\ \A k \in 1..Len(events) :
          events[k] = <<StepKinds[((k - 1) % 5) + 1], ((k - 1) \div 5) + 1>>
    /\ \A k \in 1..Len(events) :
          /\ events[k][1] = "progress" =>
                /\ Len(stderr) >= events[k][2]
                /\ stderr[events[k][2]] =
                      <<"[">> \o ToStr(events[k][2]) \o <<"/">> \o ToStr(Len(groups))
                      \o <<"] Running ">> \o groups[events[k][2]] \o <<"...">>
                /\ Len(stdout) >= events[k][2] - 1
          /\ events[k][1] = "line" =>
                /\ Len(stdout) >= events[k][2]
                /\ NamesGroup(stdout[events[k][2]], groups[events[k][2]])
    /\ Len(stdout) = Cardinality({k \in 1..Len(events) : events[k][1] = "line"})

\* the second group's progress notice, after the first group's line
C10_Witness ==
    /\ Len(events) = 6
    /\ events[5] = <<"line", 1>>
    /\ events[6] = <<"progress", 2>>
    /\ Len(stdout) = 1

=============================================================================
